---- MODULE Spec2Model ----
(***************************************************************************)
(* Product Service (src/server.js): an Express application exposing CRUD   *)
(* routes over one Mongoose model, Product.                                *)
(*                                                                         *)
(* Strings are sequences of one-character strings so that trim() and       *)
(* parseInt() are computed, not assumed.  A JavaScript value is a record   *)
(* carrying its typeof tag.  Identifiers are ObjectIds: well-formed ones   *)
(* are numbered in the order the store assigns them, and one malformed     *)
(* identifier stands for every string Mongoose cannot cast to ObjectId.    *)
(*                                                                         *)
(* The database is taken to be connected and answering.  A POST or PUT     *)
(* carries a JSON object, or text that is not JSON; GET and DELETE         *)
(* requests carry no body.  The logger middleware only writes to the       *)
(* console and keeps no state.                                             *)
(***************************************************************************)
EXTENDS Integers, Sequences, FiniteSets, TLC

\* Number of products the store may ever be asked to create in one run.
MaxProducts == 2

(***************************************************************************)
(* JavaScript values                                                       *)
(***************************************************************************)
Str(s) == [type |-> "string", str |-> s, num |-> 0, bool |-> FALSE]
Num(n) == [type |-> "number", str |-> <<>>, num |-> n, bool |-> FALSE]
Bool(b) == [type |-> "boolean", str |-> <<>>, num |-> 0, bool |-> b]
Undefined == [type |-> "undefined", str |-> <<>>, num |-> 0, bool |-> FALSE]

RECURSIVE TrimStart(_)
TrimStart(s) == IF s # <<>> /\ Head(s) = " " THEN TrimStart(Tail(s)) ELSE s

RECURSIVE TrimEnd(_)
TrimEnd(s) ==
  IF s # <<>> /\ s[Len(s)] = " " THEN TrimEnd(SubSeq(s, 1, Len(s) - 1)) ELSE s

\* String.prototype.trim as used by validateProduct
Trim(s) == TrimEnd(TrimStart(s))

(***************************************************************************)
(* Documents, identifiers, errors, responses                               *)
(***************************************************************************)
\* the five paths of productSchema
productSchema == {"name", "description", "price", "category", "inStock"}

MkBody(n, d, p, c, s) ==
  [name |-> n, description |-> d, price |-> p, category |-> c, inStock |-> s]

NoDoc == MkBody(Undefined, Undefined, Undefined, Undefined, Undefined)

\* req.params.id: wf says whether the string casts to an ObjectId
Oid(n) == [n |-> n, wf |-> TRUE]
MalformedOid == [n |-> 0, wf |-> FALSE]
NoOid == [n |-> -1, wf |-> FALSE]

\* A product as it appears in a response: its _id and its fields
NoProduct == [id |-> 0, doc |-> NoDoc]

\* JavaScript numbers as parseInt produces them
JsInt(v) == [v |-> v, nan |-> FALSE]
NaN == [v |-> 0, nan |-> TRUE]

\* An Error object; status 0 stands for "no status property"
NotFoundError(message) ==
  [name |-> "NotFoundError", message |-> message, status |-> 404]

ValidationError(message) ==
  [name |-> "ValidationError", message |-> message, status |-> 400]

\* body-parser's error on malformed JSON: a SyntaxError with status 400
JsonSyntaxError ==
  [name |-> "SyntaxError", message |-> "Unexpected token in JSON", status |-> 400]

\* Mongoose's CastError for an identifier that is no ObjectId: no status
CastError ==
  [name |-> "CastError", message |-> "Cast to ObjectId failed", status |-> 0]

\* The server's rejection of a find command: no status
MongoServerError ==
  [name |-> "MongoServerError", message |-> "invalid skip or limit", status |-> 0]

\* A response: status line and JSON body.  hasError / hasMessage say
\* whether the body has an `error` / a `message` property.
BaseRes ==
  [message |-> "", status |-> 0, hasError |-> FALSE, error |-> "",
   hasMessage |-> FALSE, text |-> "", hasProduct |-> FALSE, product |-> NoProduct,
   isList |-> FALSE, page |-> NaN, limit |-> NaN, total |-> 0, data |-> <<>>,
   raced |-> {}]

\* res.status(s).json({ message })
JsonMessage(s, message) ==
  [BaseRes EXCEPT !.status = s, !.hasMessage = TRUE, !.message = message]

\* res.status(s).json({ error, message })
JsonError(s, error, message) ==
  [BaseRes EXCEPT !.status = s, !.hasError = TRUE, !.error = error,
                  !.hasMessage = TRUE, !.message = message]

\* res.status(s).json(product)
JsonProduct(s, id, doc) ==
  [BaseRes EXCEPT !.status = s, !.hasProduct = TRUE,
                  !.product = [id |-> id, doc |-> doc]]

\* res.json({ message: "Product deleted", product })
JsonDeleted(id, doc) ==
  [BaseRes EXCEPT !.status = 200, !.hasMessage = TRUE,
                  !.message = "Product deleted", !.hasProduct = TRUE,
                  !.product = [id |-> id, doc |-> doc]]

\* res.json({ page, limit, total, data })
JsonList(page, limit, total, data, raced) ==
  [BaseRes EXCEPT !.status = 200, !.isList = TRUE, !.page = page,
                  !.limit = limit, !.total = total, !.data = data,
                  !.raced = raced]

\* res.send("Hello World!")
TextRes(text) == [BaseRes EXCEPT !.status = 200, !.text = text]

(***************************************************************************)
(* Middleware                                                              *)
(***************************************************************************)
\* The request header myproduct-api-key: absent, or present with a value
NoHeader == [present |-> FALSE, value |-> ""]
Header(v) == [present |-> TRUE, value |-> v]

\* Mutant: only a header that is present is compared with the secret
checkApiKey_PassesAbsent(header) ==
  header.present => header.value = "myproduct-secret-key"

\* checkApiKey: TRUE when the middleware calls next()
checkApiKey(header) == header.present /\ header.value = "myproduct-secret-key"

\* The response checkApiKey sends itself when it does not call next()
Forbidden == JsonMessage(403, "Forbidden - Invalid API KEY")

\* Mutant: the strings are compared with "" without being trimmed
validateProduct_NoTrim(body) ==
  ~ (\/ body.name.type # "string" \/ body.name.str = <<>>
     \/ body.description.type # "string" \/ body.description.str = <<>>
     \/ body.category.type # "string" \/ body.category.str = <<>>
     \/ body.price.type # "number"
     \/ body.inStock.type # "boolean")

\* Mutant: the type of price is not looked at
validateProduct_AnyPrice(body) ==
  ~ (\/ body.name.type # "string" \/ Trim(body.name.str) = <<>>
     \/ body.description.type # "string" \/ Trim(body.description.str) = <<>>
     \/ body.category.type # "string" \/ Trim(body.category.str) = <<>>
     \/ body.inStock.type # "boolean")

\* validateProduct: TRUE when the middleware calls next() without an error
validateProduct(body) ==
  ~ (\/ body.name.type # "string" \/ Trim(body.name.str) = <<>>
     \/ body.description.type # "string" \/ Trim(body.description.str) = <<>>
     \/ body.category.type # "string" \/ Trim(body.category.str) = <<>>
     \/ body.price.type # "number"
     \/ body.inStock.type # "boolean")

\* Mutant: the status the error carries is not looked at
ErrorResponder_Always500(err) ==
  JsonError(500, "InternalServerError", "Something went wrong!")

\* Mutant: the body carries the message alone
ErrorResponder_MessageOnly(err) ==
  IF err.status # 0
    THEN JsonMessage(err.status, err.message)
    ELSE JsonMessage(500, "Something went wrong!")

\* The global error handler
ErrorResponder(err) ==
  IF err.status # 0
    THEN JsonError(err.status, err.name, err.message)
    ELSE JsonError(500, "InternalServerError", "Something went wrong!")

(***************************************************************************)
(* Persistence gateway: the Mongoose model Product                         *)
(***************************************************************************)
\* The SchemaType of each path of productSchema
SchemaType(path) ==
  CASE path \in {"name", "description", "category"} -> "string"
    [] path = "price" -> "number"
    [] path = "inStock" -> "boolean"

\* Casting a body to the schema keeps a value of the path's type and a
\* missing value.  Mongoose would coerce some mistyped values; no request
\* that passes validateProduct carries one, so they are treated as failing.
CastOk(body) ==
  \A path \in productSchema :
    body[path].type \in {SchemaType(path), "undefined"}

\* `required: true`: the value is there, and a string is not empty
Required(v) == v.type # "undefined" /\ (v.type = "string" => v.str # <<>>)

\* Document validation run by save()
SchemaValid(doc) == CastOk(doc) /\ \A path \in productSchema : Required(doc[path])

\* Mutant: the document is built without the price
NewProduct_NoPrice(body) ==
  [path \in productSchema |-> IF path = "price" THEN Undefined ELSE body[path]]

\* new Product(req.body): the schema's paths of the body
NewProduct(body) == [path \in productSchema |-> body[path]]

\* The document after { $set: body } is applied to it
ApplyUpdate(doc, body) ==
  [path \in productSchema |->
     IF body[path].type = "undefined" THEN doc[path] ELSE body[path]]

\* Mutant: { new: false }, the document as it was before the update
ReturnedDocument_Old(before, after) == before

\* What findByIdAndUpdate resolves to under { new: true }
ReturnedDocument(before, after) == after

\* Update validators (runValidators: true) look at the paths being set
UpdateValid(body) ==
  /\ CastOk(body)
  /\ \A path \in productSchema :
       body[path].type # "undefined" => Required(body[path])

\* Mongoose's own ValidationError carries no status
MongooseValidationError ==
  [name |-> "ValidationError", message |-> "Product validation failed",
   status |-> 0]

(***************************************************************************)
(* State                                                                   *)
(***************************************************************************)
VARIABLES
  store,      \* the products collection: _id -> document
  nextId,     \* the next ObjectId the store hands out
  req,        \* the request the last step served
  res,        \* the response that step sent (status 0: none yet)
  posted,     \* history: _id -> body it was created from, until it is written again
  listPc,     \* the list handler: "idle", or "count" between find and count
  listReq,    \* the list request in flight
  listData,   \* what its find returned
  listRaced   \* history: the writes the store applied since that find

vars ==
  <<store, nextId, req, res, posted, listPc, listReq, listData, listRaced>>

NoParam == [str |-> <<>>, present |-> FALSE]
Param(s) == [str |-> s, present |-> TRUE]
NoQuery ==
  [category |-> NoParam, inStock |-> NoParam, page |-> NoParam, limit |-> NoParam]

\* A request: method and route, the API-key header, the state of its JSON
\* body ("none", "ok" with the parsed body, or "malformed"), :id, the query
Request(method, route, key, json, body, id, query) ==
  [id |-> id, body |-> body, method |-> method, route |-> route, key |-> key,
   json |-> json, query |-> query]

NoRequest == Request("", "", NoHeader, "none", NoDoc, NoOid, NoQuery)

\* A successful write observed by a list request between its two reads
Raced(method) == IF listPc = "count" THEN listRaced \cup {method} ELSE listRaced

Init ==
  /\ store = <<>>
  /\ nextId = 1
  /\ req = NoRequest
  /\ res = BaseRes
  /\ posted = <<>>
  /\ listPc = "idle"
  /\ listReq = NoRequest
  /\ listData = <<>>
  /\ listRaced = {}

\* f with key k removed
Without(f, k) == [x \in DOMAIN f \ {k} |-> f[x]]

\* f with key k bound to v
With(f, k, v) == [x \in DOMAIN f \cup {k} |-> IF x = k THEN v ELSE f[x]]

(***************************************************************************)
(* Routes                                                                  *)
(***************************************************************************)
\* Product.findByIdAndUpdate(id, body): the collection afterwards
FindByIdAndUpdate(st, n, body) == [st EXCEPT ![n] = ApplyUpdate(@, body)]

\* Mutant: the document is looked up and left in the collection
FindByIdAndDelete_Keeps(st, n) == st

\* Product.findByIdAndDelete(id): the collection afterwards
FindByIdAndDelete(st, n) == Without(st, n)

\* app.get("/")
Root ==
  LET r == Request("GET", "/", NoHeader, "none", NoDoc, NoOid, NoQuery)
  IN
    /\ req' = r
    /\ res' = TextRes("Hello World!")
    /\ UNCHANGED <<store, nextId, posted, listPc, listReq, listData, listRaced>>

\* app.get("/api/products/:id")
GetOne(ids) ==
  \E id \in ids :
    LET r == Request("GET", "/api/products/:id", NoHeader, "none", NoDoc, id, NoQuery)
    IN
    /\ req' = r
    /\ res' = IF ~ r.id.wf THEN ErrorResponder(CastError)
              ELSE IF r.id.n \notin DOMAIN store
                THEN ErrorResponder(NotFoundError("Product not found"))
              ELSE JsonProduct(200, r.id.n, store[r.id.n])
    /\ UNCHANGED <<store, nextId, posted, listPc, listReq, listData, listRaced>>

\* app.post("/api/products", checkApiKey, validateProduct, handler)
Post(payloads) ==
  /\ nextId <= MaxProducts
  /\ \E p \in payloads :
       LET r == Request("POST", "/api/products", p.key, p.json, p.body, NoOid, NoQuery)
       IN
       /\ req' = r
       /\ IF r.json = "malformed" THEN
            /\ res' = ErrorResponder(JsonSyntaxError)
            /\ UNCHANGED <<store, nextId, posted, listRaced>>
          ELSE IF ~ checkApiKey(r.key) THEN
            /\ res' = Forbidden
            /\ UNCHANGED <<store, nextId, posted, listRaced>>
          ELSE IF ~ validateProduct(r.body) THEN
            /\ res' = ErrorResponder(ValidationError("Invalid product data"))
            /\ UNCHANGED <<store, nextId, posted, listRaced>>
          ELSE IF ~ SchemaValid(NewProduct(r.body)) THEN
            /\ res' = ErrorResponder(MongooseValidationError)
            /\ UNCHANGED <<store, nextId, posted, listRaced>>
          ELSE
            /\ store' = With(store, nextId, NewProduct(r.body))
            /\ nextId' = nextId + 1
            /\ posted' = With(posted, nextId, r.body)
            /\ res' = JsonProduct(201, nextId, NewProduct(r.body))
            /\ listRaced' = Raced("POST")
       /\ UNCHANGED <<listPc, listReq, listData>>

\* app.put("/api/products/:id", checkApiKey, validateProduct, handler)
Put(payloads, ids) ==
  \E p \in payloads, id \in ids :
    LET r == Request("PUT", "/api/products/:id", p.key, p.json, p.body, id, NoQuery)
    IN
    /\ req' = r
    /\ IF r.json = "malformed" THEN
         /\ res' = ErrorResponder(JsonSyntaxError)
         /\ UNCHANGED <<store, posted, listRaced>>
       ELSE IF ~ checkApiKey(r.key) THEN
         /\ res' = Forbidden
         /\ UNCHANGED <<store, posted, listRaced>>
       ELSE IF ~ validateProduct(r.body) THEN
         /\ res' = ErrorResponder(ValidationError("Invalid product data"))
         /\ UNCHANGED <<store, posted, listRaced>>
       ELSE IF ~ r.id.wf THEN
         /\ res' = ErrorResponder(CastError)
         /\ UNCHANGED <<store, posted, listRaced>>
       ELSE IF ~ UpdateValid(r.body) THEN
         /\ res' = ErrorResponder(MongooseValidationError)
         /\ UNCHANGED <<store, posted, listRaced>>
       ELSE IF r.id.n \notin DOMAIN store THEN
         /\ res' = ErrorResponder(NotFoundError("Product not found"))
         /\ UNCHANGED <<store, posted, listRaced>>
       ELSE
         /\ store' = FindByIdAndUpdate(store, r.id.n, r.body)
         /\ posted' = Without(posted, r.id.n)
         /\ res' = JsonProduct(200, r.id.n,
                               ReturnedDocument(store[r.id.n], store'[r.id.n]))
         /\ listRaced' = Raced("PUT")
    /\ UNCHANGED <<nextId, listPc, listReq, listData>>

\* app.delete("/api/products/:id", checkApiKey, handler)
Delete(keys, ids) ==
  \E k \in keys, id \in ids :
    LET r == Request("DELETE", "/api/products/:id", k, "none", NoDoc, id, NoQuery)
    IN
    /\ req' = r
    /\ IF ~ checkApiKey(r.key) THEN
         /\ res' = Forbidden
         /\ UNCHANGED <<store, posted, listRaced>>
       ELSE IF ~ r.id.wf THEN
         /\ res' = ErrorResponder(CastError)
         /\ UNCHANGED <<store, posted, listRaced>>
       ELSE IF r.id.n \notin DOMAIN store THEN
         /\ res' = ErrorResponder(NotFoundError("Product not found"))
         /\ UNCHANGED <<store, posted, listRaced>>
       ELSE
         /\ store' = FindByIdAndDelete(store, r.id.n)
         /\ posted' = Without(posted, r.id.n)
         /\ res' = JsonDeleted(r.id.n, store[r.id.n])
         /\ listRaced' = Raced("DELETE")
    /\ UNCHANGED <<nextId, listPc, listReq, listData>>

(***************************************************************************)
(* GET /api/products: pagination and filtering                             *)
(***************************************************************************)
DefaultPage == 1
DefaultLimit == 10

TrueString == <<"t", "r", "u", "e">>

Digits == <<"0", "1", "2", "3", "4", "5", "6", "7", "8", "9">>
IsDigit(c) == \E i \in 1..10 : Digits[i] = c
DigitValue(c) == (CHOOSE i \in 1..10 : Digits[i] = c) - 1

\* The leading decimal digits of s: whether there are any, and their value
RECURSIVE ParseDigits(_, _, _)
ParseDigits(s, acc, seen) ==
  IF s # <<>> /\ IsDigit(Head(s))
    THEN ParseDigits(Tail(s), acc * 10 + DigitValue(Head(s)), TRUE)
    ELSE [v |-> acc, seen |-> seen]

\* parseInt(string): leading blanks, an optional sign, then decimal digits;
\* whatever follows the digits is ignored; no digit at all gives NaN
ParseInt(s) ==
  LET t == TrimStart(s)
      signed == t # <<>> /\ Head(t) \in {"-", "+"}
      d == ParseDigits(IF signed THEN Tail(t) ELSE t, 0, FALSE)
  IN  IF ~ d.seen THEN NaN
      ELSE IF signed /\ Head(t) = "-" THEN JsInt(0 - d.v) ELSE JsInt(d.v)

\* let { page = 1 } = req.query; page = parseInt(page)
PageOf(query) ==
  IF query.page.present THEN ParseInt(query.page.str) ELSE JsInt(DefaultPage)

\* let { limit = 10 } = req.query; limit = parseInt(limit)
LimitOf(query) ==
  IF query.limit.present THEN ParseInt(query.limit.str) ELSE JsInt(DefaultLimit)

\* (page - 1) * limit
SkipOf(page, limit) ==
  IF page.nan \/ limit.nan THEN NaN ELSE JsInt((page.v - 1) * limit.v)

\* The Mongo query object: category is set when the parameter is truthy,
\* inStock when the parameter is there, to (inStock === "true")
FilterOf(query) ==
  [category |-> query.category.str,
   inStock |-> query.inStock.str = TrueString,
   byCategory |-> query.category.present /\ query.category.str # <<>>,
   byInStock |-> query.inStock.present]

Matches(doc, filter) ==
  /\ filter.byCategory => doc.category = Str(filter.category)
  /\ filter.byInStock => doc.inStock = Bool(filter.inStock)

\* The documents of st matching the filter, in the order they were inserted
RECURSIVE FindFrom(_, _, _, _)
FindFrom(st, filter, i, top) ==
  IF i > top THEN <<>>
  ELSE (IF i \in DOMAIN st /\ Matches(st[i], filter)
          THEN <<[id |-> i, doc |-> st[i]]>> ELSE <<>>)
       \o FindFrom(st, filter, i + 1, top)

\* Mutant: Product.find() without the query
Find_NoQuery(st, filter, top) ==
  FindFrom(st, [filter EXCEPT !.byCategory = FALSE, !.byInStock = FALSE], 1, top)

\* Product.find(query)
Find(st, filter, top) == FindFrom(st, filter, 1, top)

\* Product.countDocuments(query)
CountDocuments(st, filter) ==
  Cardinality({i \in DOMAIN st : Matches(st[i], filter)})

\* The find command rejects a skip or limit that is NaN and a negative skip
CursorRejects(skip, limit) == skip.nan \/ limit.nan \/ skip.v < 0

\* How many documents a cursor with .limit(n) returns of `available`:
\* limit 0 is "no limit"; the driver sends a negative limit as its absolute
\* value (a single batch)
LimitCount(n, available) ==
  IF n = 0 THEN available
  ELSE IF n < 0 THEN (IF 0 - n < available THEN 0 - n ELSE available)
  ELSE (IF n < available THEN n ELSE available)

\* .skip(skip).limit(limit) over the matching documents
SkipLimit(docs, skip, limit) ==
  LET rest == IF skip >= Len(docs) THEN <<>> ELSE SubSeq(docs, skip + 1, Len(docs))
  IN  SubSeq(rest, 1, LimitCount(limit, Len(rest)))

\* The list handler up to its first await: Product.find(...).skip().limit()
ListFind(pages, limits, categories, inStocks) ==
  /\ listPc = "idle"
  /\ \E p \in pages, l \in limits, c \in categories, s \in inStocks :
       LET r == Request("GET", "/api/products", NoHeader, "none", NoDoc, NoOid,
                        [category |-> c, inStock |-> s, page |-> p, limit |-> l])
           page == PageOf(r.query)
           limit == LimitOf(r.query)
           skip == SkipOf(page, limit)
       IN  IF CursorRejects(skip, limit) THEN
             /\ req' = r
             /\ res' = ErrorResponder(MongoServerError)
             /\ UNCHANGED <<listPc, listReq, listData, listRaced>>
           ELSE
             /\ listPc' = "count"
             /\ listReq' = r
             /\ listData' = SkipLimit(Find(store, FilterOf(r.query), nextId - 1),
                                      skip.v, limit.v)
             /\ listRaced' = {}
             /\ req' = r
             /\ res' = BaseRes
  /\ UNCHANGED <<store, nextId, posted>>

\* The list handler from its second await: countDocuments, then res.json
ListCount ==
  /\ listPc = "count"
  /\ req' = listReq
  /\ res' = JsonList(PageOf(listReq.query), LimitOf(listReq.query),
                     CountDocuments(store, FilterOf(listReq.query)),
                     listData, listRaced)
  /\ listPc' = "idle"
  /\ listReq' = NoRequest
  /\ listData' = <<>>
  /\ listRaced' = {}
  /\ UNCHANGED <<store, nextId, posted>>

(***************************************************************************)
(* Requests                                                                *)
(***************************************************************************)
SecretKey == Header("myproduct-secret-key")
OtherKeys == {Header("wrong-key"), NoHeader}

BodyA == MkBody(Str(<<"P">>), Str(<<"d">>), Num(1), Str(<<"a">>), Bool(TRUE))
BodyB == MkBody(Str(<<" ", "Q">>), Str(<<"e">>), Num(0), Str(<<"b">>), Bool(FALSE))
ValidBodies == {BodyA, BodyB}

\* BodyA with one field wrong
BlankName == [BodyA EXCEPT !.name = Str(<<" ">>)]
InvalidBodies ==
  { BlankName,
    [BodyA EXCEPT !.name = Num(1)],
    [BodyA EXCEPT !.description = Undefined],
    [BodyA EXCEPT !.description = Str(<<>>)],
    [BodyA EXCEPT !.category = Bool(TRUE)],
    [BodyA EXCEPT !.category = Str(<<" ", " ">>)],
    [BodyA EXCEPT !.price = Str(<<"1">>)],
    [BodyA EXCEPT !.inStock = Undefined] }

\* Identifiers a request may name: every one the store can hand out (not
\* yet handed out, stored, or deleted) and a malformed one
Oids == {Oid(n) : n \in 1..MaxProducts} \cup {MalformedOid}

\* What a POST or PUT carries: a key with a parsed body, or with malformed JSON
Parsed(keys, bodies) ==
  {[body |-> b, key |-> k, json |-> "ok"] : k \in keys, b \in bodies}
Malformed(keys) == {[body |-> NoDoc, key |-> k, json |-> "malformed"] : k \in keys}

\* With the right key every body is tried; without it a valid body, an
\* invalid one and malformed JSON
Payloads ==
  Parsed({SecretKey}, ValidBodies \cup InvalidBodies)
    \cup Parsed(OtherKeys, {BodyA, BlankName})
    \cup Malformed({SecretKey} \cup OtherKeys)

\* ?page= and ?limit= as a client may send them: left out, a number, zero,
\* negative, digits followed by something else, not a number
Pages == {NoParam, Param(<<"2">>), Param(<<"0">>)}
Limits ==
  {NoParam, Param(<<"1">>), Param(<<"2", "x">>), Param(<<"0">>),
   Param(<<"-", "1">>), Param(<<"x">>)}
Categories == {NoParam, Param(<<"a">>)}
InStocks == {NoParam, Param(TrueString), Param(<<"n", "o">>)}

Keys == {SecretKey} \cup OtherKeys
Authorised == {SecretKey}
AuthorisedPayloads == Parsed(Authorised, ValidBodies)
LeftOut == {NoParam}
FewLimits == {NoParam, Param(<<"0">>), Param(<<"x">>)}
ConcPages == {NoParam, Param(<<"2">>)}
ConcLimits == {NoParam, Param(<<"1">>)}

(***************************************************************************)
(* Specifications                                                          *)
(***************************************************************************)
\* One client: each request is answered before the next one is sent
Idle == listPc = "idle"

Next ==
  \/ Idle /\ Root
  \/ Idle /\ GetOne(Oids)
  \/ Idle /\ Post(Payloads)
  \/ Idle /\ Put(Payloads, Oids)
  \/ Idle /\ Delete(Keys, Oids)
  \/ ListFind(LeftOut, FewLimits, Categories, LeftOut)
  \/ ListCount

Spec == Init /\ [][Next]_vars

\* One client that lists: authorised writes fill the store, every list
\* request is answered before the next request is sent
NextList ==
  \/ Idle /\ Post(AuthorisedPayloads)
  \/ Idle /\ Delete(Authorised, Oids)
  \/ ListFind(Pages, Limits, Categories, InStocks)
  \/ ListCount

SpecList == Init /\ [][NextList]_vars

\* Several clients: while a list request is between its find and its count,
\* the authorised writes of other clients reach the store
NextConc ==
  \/ Post(AuthorisedPayloads)
  \/ Put(AuthorisedPayloads, Oids)
  \/ Delete(Authorised, Oids)
  \/ ListFind(ConcPages, ConcLimits, Categories, LeftOut)
  \/ ListCount

SpecConc == Init /\ [][NextConc]_vars

(***************************************************************************)
(* Properties                                                              *)
(***************************************************************************)
\* What the properties say about requests and documents is stated here on
\* its own, not through the middleware's operators.
KeyIsSecret(header) == header.present /\ header.value = "myproduct-secret-key"

NonBlankString(v) ==
  v.type = "string" /\ \E i \in 1..Len(v.str) : v.str[i] # " "

ValidProduct(b) ==
  /\ NonBlankString(b.name)
  /\ NonBlankString(b.description)
  /\ NonBlankString(b.category)
  /\ b.price.type = "number"
  /\ b.inStock.type = "boolean"

SameFields(doc, b) == \A path \in productSchema : doc[path] = b[path]

IsWrite(r) == r.method \in {"POST", "PUT", "DELETE"}
IsGetOne(r) == r.method = "GET" /\ r.route = "/api/products/:id"

\* The body of the 403 response: { message } and nothing else
IsForbidden(r) ==
  /\ r.status = 403
  /\ r.hasMessage /\ r.message = "Forbidden - Invalid API KEY"
  /\ ~ r.hasError /\ ~ r.hasProduct /\ ~ r.isList

\* Identifiers the store handed out whose product has been deleted
Deleted == (1..(nextId - 1)) \ DOMAIN store

\* C1, as stated: a POST, PUT or DELETE whose API key is absent or wrong
\* gets the 403 response whatever its body or identifier, and the store is
\* left as it was.
C1_ForbiddenWhateverBody ==
  [][ (IsWrite(req') /\ ~ KeyIsSecret(req'.key))
        => (IsForbidden(res') /\ store' = store /\ nextId' = nextId) ]_vars

\* C1, amended: a POST, PUT or DELETE whose API key is absent or wrong gets
\* the 403 response whatever its identifier and whatever its body, valid or
\* not, as long as the body is not malformed JSON; malformed JSON is
\* rejected with 400 before the key is looked at.  Either way the store is
\* left as it was.
C1_ForbiddenUnlessMalformed ==
  [][ (IsWrite(req') /\ ~ KeyIsSecret(req'.key))
        => /\ store' = store /\ nextId' = nextId
           /\ req'.json # "malformed" => IsForbidden(res')
           /\ req'.json = "malformed" => res'.status = 400 ]_vars

C1_Witness ==
  /\ req.method = "PUT" /\ ~ req.key.present /\ req.json = "ok"
  /\ ~ ValidProduct(req.body)
  /\ req.id.wf /\ req.id.n \in DOMAIN store
  /\ IsForbidden(res)

\* C2: a POST or PUT with the right API key whose body fails validation
\* gets 400 and the store is left as it was.
C2_InvalidBodyRejected ==
  [][ ( /\ req'.method \in {"POST", "PUT"} /\ KeyIsSecret(req'.key)
        /\ req'.json = "ok" /\ ~ ValidProduct(req'.body) )
        => (res'.status = 400 /\ store' = store /\ nextId' = nextId) ]_vars

C2_Witness ==
  /\ req.method = "PUT" /\ KeyIsSecret(req.key) /\ req.json = "ok"
  /\ req.body.price.type = "string"
  /\ req.id.wf /\ req.id.n \in DOMAIN store
  /\ res.status = 400 /\ res.error = "ValidationError"

\* C3: a POST of a valid payload with the right API key returns 201 with
\* a record that carries the identifier the store assigned and the
\* payload's fields; a GET of an identifier that has not been written
\* since its POST returns 200 with the fields of the payload.
C3_CreateThenFetch ==
  /\ ( /\ req.method = "POST" /\ KeyIsSecret(req.key)
       /\ req.json = "ok" /\ ValidProduct(req.body) )
       => /\ res.status = 201 /\ res.hasProduct
          /\ res.product.id = nextId - 1
          /\ res.product.id \in DOMAIN store
          /\ SameFields(res.product.doc, req.body)
  /\ (IsGetOne(req) /\ req.id.wf /\ req.id.n \in DOMAIN posted)
       => /\ res.status = 200 /\ res.hasProduct
          /\ res.product.id = req.id.n
          /\ SameFields(res.product.doc, posted[req.id.n])

C3_Witness ==
  /\ IsGetOne(req) /\ req.id.wf /\ req.id.n \in DOMAIN posted
  /\ posted[req.id.n] = BodyB
  /\ Cardinality(DOMAIN store) = 2
  /\ res.status = 200

\* C4: the first DELETE, with the right API key, of a stored product
\* returns 200 with { message: "Product deleted", product: the record }
\* and removes it; from then on the identifier stays gone, and every GET
\* of it and every DELETE of it with the right API key returns 404.
C4_DeleteOnce ==
  [][ /\ ( /\ req'.method = "DELETE" /\ KeyIsSecret(req'.key)
           /\ req'.id.wf /\ req'.id.n \in DOMAIN store )
           => /\ res'.status = 200
              /\ res'.hasMessage /\ res'.message = "Product deleted"
              /\ res'.hasProduct
              /\ res'.product = [id |-> req'.id.n, doc |-> store[req'.id.n]]
              /\ req'.id.n \notin DOMAIN store'
              /\ \A n \in DOMAIN store \ {req'.id.n} :
                   n \in DOMAIN store' /\ store'[n] = store[n]
      /\ ( /\ IsGetOne(req') \/ (req'.method = "DELETE" /\ KeyIsSecret(req'.key))
           /\ req'.id.wf /\ req'.id.n \in Deleted )
           => res'.status = 404
      /\ Deleted \subseteq Deleted' ]_vars

C4_Witness ==
  /\ req.method = "DELETE" /\ KeyIsSecret(req.key)
  /\ req.id.wf /\ req.id.n \in Deleted
  /\ res.status = 404
  /\ store # <<>>

\* C5: a list response holds at most `limit` items (none when the limit
\* is zero or negative), each matching the filter, and its total is the
\* number of stored products matching the filter.
ParamMatches(doc, query) ==
  /\ (query.category.present /\ query.category.str # <<>>)
       => doc.category = Str(query.category.str)
  /\ query.inStock.present
       => doc.inStock = Bool(query.inStock.str = <<"t", "r", "u", "e">>)

C5_AtMostLimitItems ==
  res.isList
    => /\ ~ res.limit.nan
       /\ Len(res.data) <= (IF res.limit.v > 0 THEN res.limit.v ELSE 0)
       /\ \A i \in 1..Len(res.data) : ParamMatches(res.data[i].doc, req.query)
       /\ res.total = Cardinality({n \in DOMAIN store : ParamMatches(store[n], req.query)})

\* C6: a GET, a PUT (right API key, valid body) or a DELETE (right API key)
\* of a well-formed identifier with no stored product returns 404 with
\* error NotFoundError, and the store is left as it was.
C6_MissingIsNotFound ==
  [][ ( /\ \/ IsGetOne(req')
           \/ /\ req'.method = "PUT" /\ KeyIsSecret(req'.key)
              /\ req'.json = "ok" /\ ValidProduct(req'.body)
           \/ (req'.method = "DELETE" /\ KeyIsSecret(req'.key))
        /\ req'.id.wf /\ req'.id.n \notin DOMAIN store )
        => /\ res'.status = 404
           /\ res'.hasError /\ res'.error = "NotFoundError"
           /\ store' = store /\ nextId' = nextId ]_vars

C6_Witness ==
  /\ req.method = "PUT" /\ KeyIsSecret(req.key)
  /\ req.json = "ok" /\ ValidProduct(req.body)
  /\ req.id.wf /\ req.id.n \notin DOMAIN store
  /\ res.status = 404
  /\ store # <<>>

\* C7, as stated: every error response has a JSON body with an `error`
\* field and a `message` field.
C7_EveryErrorHasErrorField ==
  res.status >= 400 => (res.hasError /\ res.hasMessage)

\* C7, amended: every error response is a 400, 403, 404 or 500 with a
\* `message`; the 400, 404 and 500 responses, sent by the error handler,
\* also carry an `error` field naming the kind; the 403 response, sent by
\* the API-key middleware itself, carries no `error` field.
C7_ErrorBodies ==
  res.status >= 400
    => /\ res.status \in {400, 403, 404, 500}
       /\ res.hasMessage /\ res.message # ""
       /\ res.status # 403 => (res.hasError /\ res.error # "")
       /\ res.status = 403 => ~ res.hasError
       /\ res.status = 500 => res.error = "InternalServerError"
       /\ res.status = 404 => res.error = "NotFoundError"

C7_Witness ==
  /\ res.status = 500 /\ res.hasError /\ res.hasMessage
  /\ req.method = "DELETE" /\ KeyIsSecret(req.key) /\ ~ req.id.wf

\* C8: every stored product has a name, a description and a category that
\* are strings non-empty after trim, a price that is a number and an
\* inStock that is a boolean.
C8_StoredProductsValid ==
  \A n \in DOMAIN store : ValidProduct(store[n])

C8_Witness ==
  /\ Cardinality(DOMAIN store) = 2
  /\ req.method = "PUT" /\ res.status = 200
  /\ \E n \in DOMAIN store : store[n].name = Str(<<" ", "Q">>)

\* C9: a PUT with the right API key and a valid body on a stored product
\* returns 200 with the record as it is after the update: the requested
\* identifier and the fields of the body; the store holds the same
\* identifiers as before and every other product is unchanged.
C9_UpdateInPlace ==
  [][ ( /\ req'.method = "PUT" /\ KeyIsSecret(req'.key)
        /\ req'.json = "ok" /\ ValidProduct(req'.body)
        /\ req'.id.wf /\ req'.id.n \in DOMAIN store )
        => /\ res'.status = 200 /\ res'.hasProduct
           /\ res'.product.id = req'.id.n
           /\ SameFields(res'.product.doc, req'.body)
           /\ DOMAIN store' = DOMAIN store
           /\ res'.product.doc = store'[req'.id.n]
           /\ \A n \in DOMAIN store \ {req'.id.n} : store'[n] = store[n] ]_vars

C9_Witness ==
  /\ req.method = "PUT" /\ res.status = 200
  /\ Cardinality(DOMAIN store) = 2
  /\ req.body = BodyB
  /\ \E n \in DOMAIN store : store[n] = BodyA

\* C10, as stated: a list response never holds more items than its total,
\* whatever the store applied between the handler's find and its count.
C10_DataWithinTotal ==
  res.isList => Len(res.data) <= res.total

\* C10, amended: a list response never holds more items than its total
\* when the store applied no PUT and no DELETE between the handler's find
\* and its count; products created by POST in between do not break it.
C10_DataWithinTotalUnlessRaced ==
  (res.isList /\ res.raced \cap {"PUT", "DELETE"} = {})
    => Len(res.data) <= res.total

C10_Witness ==
  /\ res.isList /\ res.raced = {"POST"}
  /\ Len(res.data) >= 1
  /\ res.total > Len(res.data)

====
